---- MODULE Spec2Model ----
(***************************************************************************)
(* Model of the YouTube-podcast-to-article service: the Express handler of *)
(* src/server.js with its helper functions, and the browser client of      *)
(* src/public/app.js.                                                       *)
(*                                                                         *)
(* A JavaScript string is modelled as a Text: the run-length encoding of   *)
(* its characters, a sequence of runs [c |-> character, n |-> repetitions] *)
(* in which neighbouring runs carry different characters.  A 12001         *)
(* character transcript is then a handful of runs.  Functions that index   *)
(* single characters (URL parsing, regular expressions) work on Expand(t), *)
(* the plain sequence of one-character strings.                            *)
(***************************************************************************)
EXTENDS Integers, Sequences, FiniteSets, TLC

VARIABLES
    \* ---- extractVideoId applied to one input (SpecExtract)
    xInput, xResult, xPc,
    \* ---- the text functions applied to one input (SpecText)
    tSegments, tStyle, tChoice, tTruncated, tPc, tOut,
    \* ---- the server: process configuration and the requests in flight (Spec)
    apiKey, pc, body, frame, fetchReply, aiReply, fetchCalls, aiCalls, responses,
    \* ---- the browser page (SpecClient)
    statusText, statusError, transcriptEl, articleEl, modeEl, noteHidden,
    btnDisabled, cpc, pending, copyPending

extractVars == <<xInput, xResult, xPc>>
textVars    == <<tSegments, tStyle, tChoice, tTruncated, tPc, tOut>>
serverVars  == <<apiKey, pc, body, frame, fetchReply, aiReply, fetchCalls, aiCalls, responses>>
clientVars  == <<statusText, statusError, transcriptEl, articleEl, modeEl, noteHidden,
                 btnDisabled, cpc, pending, copyPending>>
vars        == <<extractVars, textVars, serverVars, clientVars>>

(***************************************************************************)
(* Characters.                                                             *)
(***************************************************************************)
LowerSeq == <<"a","b","c","d","e","f","g","h","i","j","k","l","m","n","o","p","q","r","s","t","u","v","w","x","y","z">>
UpperSeq == <<"A","B","C","D","E","F","G","H","I","J","K","L","M","N","O","P","Q","R","S","T","U","V","W","X","Y","Z">>
DigitSeq == <<"0","1","2","3","4","5","6","7","8","9">>
Range(s) == {s[i] : i \in 1..Len(s)}
Lower    == Range(LowerSeq)
Upper    == Range(UpperSeq)
Digit    == Range(DigitSeq)
Alpha    == Lower \cup Upper
\* \s of a regular expression and the characters String.prototype.trim removes
WS       == {" ", "\n", "\t"}
\* [a-zA-Z0-9_-]
IdChar   == Alpha \cup Digit \cup {"_", "-"}

Min(S) == CHOOSE x \in S : \A y \in S : x <= y
Max(S) == CHOOSE x \in S : \A y \in S : x >= y

\* String.prototype.toLowerCase on one character
ToLowerChar(c) ==
    IF c \in Upper THEN LowerSeq[CHOOSE i \in 1..Len(UpperSeq) : UpperSeq[i] = c] ELSE c
\* String.prototype.toLowerCase on a character sequence
ToLowerChars(cs) == [i \in 1..Len(cs) |-> ToLowerChar(cs[i])]

(***************************************************************************)
(* Text: run-length encoded strings.  The folds below split their range in *)
(* halves, so the depth of evaluation grows with the logarithm of a        *)
(* string's length.                                                        *)
(***************************************************************************)
Run(c, n) == [c |-> c, n |-> n]

\* a + b
Cat(a, b) ==
    IF a = <<>> THEN b
    ELSE IF b = <<>> THEN a
    ELSE IF a[Len(a)].c = b[1].c
         THEN SubSeq(a, 1, Len(a) - 1) \o <<Run(b[1].c, a[Len(a)].n + b[1].n)>> \o Tail(b)
         ELSE a \o b

RECURSIVE CatRange(_, _, _)
\* ts[lo] + ... + ts[hi] for a sequence ts of Texts
CatRange(ts, lo, hi) ==
    IF lo > hi THEN <<>>
    ELSE IF lo = hi THEN ts[lo]
    ELSE LET mid   == (lo + hi) \div 2
             left  == CatRange(ts, lo, mid)
             right == CatRange(ts, mid + 1, hi)
         IN  Cat(left, right)
CatAll(ts) == CatRange(ts, 1, Len(ts))

RECURSIVE FlatRange(_, _, _)
\* ss[lo] \o ... \o ss[hi] for a sequence ss of sequences
FlatRange(ss, lo, hi) ==
    IF lo > hi THEN <<>>
    ELSE IF lo = hi THEN ss[lo]
    ELSE LET mid == (lo + hi) \div 2
         IN  FlatRange(ss, lo, mid) \o FlatRange(ss, mid + 1, hi)
Flatten(ss) == FlatRange(ss, 1, Len(ss))

RECURSIVE SumRange(_, _, _)
\* f[lo] + ... + f[hi] for a sequence f of numbers
SumRange(f, lo, hi) ==
    IF lo > hi THEN 0
    ELSE IF lo = hi THEN f[lo]
    ELSE LET mid == (lo + hi) \div 2
         IN  SumRange(f, lo, mid) + SumRange(f, mid + 1, hi)

\* the Text of a sequence of characters
Str(cs) == CatAll([i \in 1..Len(cs) |-> <<Run(cs[i], 1)>>])

\* the characters of a Text
Expand(t) == Flatten([k \in 1..Len(t) |-> [i \in 1..t[k].n |-> t[k].c]])

\* c repeated n times
Rep(c, n) == IF n = 0 THEN <<>> ELSE <<Run(c, n)>>

\* s.length
TextLen(t) == SumRange([k \in 1..Len(t) |-> t[k].n], 1, Len(t))

\* s.trim()
Trim(t) ==
    LET keep == {k \in 1..Len(t) : t[k].c \notin WS}
    IN  IF keep = {} THEN <<>> ELSE SubSeq(t, Min(keep), Max(keep))

\* s.replace(/\s+/g, " "): every maximal stretch of whitespace becomes one space
CollapseWs(t) ==
    CatAll([k \in 1..Len(t) |->
              IF t[k].c \notin WS THEN <<t[k]>>
              ELSE IF k > 1 /\ t[k - 1].c \in WS THEN <<>>
              ELSE <<Run(" ", 1)>>])

\* s.slice(0, k) for k >= 0
SliceTo(t, k) ==
    LET Before(j) == TextLen(SubSeq(t, 1, j - 1))
        whole     == {j \in 1..Len(t) : Before(j + 1) <= k}
        last      == IF whole = {} THEN 0 ELSE Max(whole)
        rest      == k - Before(last + 1)
    IN  IF last = Len(t) \/ rest <= 0 THEN SubSeq(t, 1, last)
        ELSE SubSeq(t, 1, last) \o <<Run(t[last + 1].c, rest)>>

\* array.join(sep) for an array of strings
JoinTexts(ts, sep) ==
    CatAll([i \in 1..(2 * Len(ts) - 1) |-> IF i % 2 = 1 THEN ts[(i + 1) \div 2] ELSE sep])

RECURSIVE LinesRange(_, _, _)
\* the lines of the runs t[lo..hi]
LinesRange(t, lo, hi) ==
    IF lo > hi THEN << <<>> >>
    ELSE IF lo = hi
    THEN IF t[lo].c = "\n" THEN [i \in 1..(t[lo].n + 1) |-> <<>>] ELSE << <<t[lo]>> >>
    ELSE LET mid   == (lo + hi) \div 2
             left  == LinesRange(t, lo, mid)
             right == LinesRange(t, mid + 1, hi)
         IN  SubSeq(left, 1, Len(left) - 1)
             \o << Cat(left[Len(left)], right[1]) >>
             \o Tail(right)

\* s.split("\n"): the lines of a text
Lines(t) == LinesRange(t, 1, Len(t))

\* array.slice(a, b) on a sequence, with 0-based a and exclusive b as in JavaScript
ArraySlice(s, a, b) ==
    LET lo == IF a < 0 THEN Max({Len(s) + a, 0}) ELSE Min({a, Len(s)})
        hi == Min({b, Len(s)})
    IN  SubSeq(s, lo + 1, hi)

(***************************************************************************)
(* new URL(input), server.js line 95.  The WHATWG parser for an absolute   *)
(* URL over the characters the inputs below are built from: no "@", "%",   *)
(* "\", "[", no "." or ".." path segment, no numeric last host label.  The  *)
(* result records whether the constructor returned (ok) and the fields the *)
(* handler reads: hostname, pathname and the query behind searchParams.    *)
(***************************************************************************)
SchemeChar  == Alpha \cup Digit \cup {"+", "-", "."}
SpecialSchemes == {<<"h","t","t","p">>, <<"h","t","t","p","s">>, <<"w","s">>, <<"w","s","s">>, <<"f","t","p">>}
ForbiddenHostChar == {" ", "\t", "\n", "#", "/", ":", "<", ">", "?", "^", "|"}

\* index of the first character of cs from position p on that is in S, or Len(cs)+1
FirstIn(cs, p, S) == Min({i \in p..Len(cs) : cs[i] \in S} \cup {Len(cs) + 1})

\* whether lit occurs in cs at position p
HasAt(cs, p, lit) ==
    /\ p >= 1
    /\ p + Len(lit) - 1 <= Len(cs)
    /\ SubSeq(cs, p, p + Len(lit) - 1) = lit

\* index of the ":" ending a scheme, or 0 when cs does not start with a scheme
SchemeEnd(cs) ==
    LET i == FirstIn(cs, 1, {":"})
    IN  IF /\ i <= Len(cs)
           /\ i > 1
           /\ cs[1] \in Alpha
           /\ \A j \in 2..(i - 1) : cs[j] \in SchemeChar
        THEN i ELSE 0

\* the path with its spaces percent-encoded
EncodePath(cs) ==
    Flatten([i \in 1..Len(cs) |-> IF cs[i] = " " THEN <<"%","2","0">> ELSE <<cs[i]>>])

\* host[:port] -> [ok, host]; ok is FALSE when the host parser fails
ParseHost(auth, special) ==
    LET c    == FirstIn(auth, 1, {":"})
        host == SubSeq(auth, 1, c - 1)
        port == SubSeq(auth, c + 1, Len(auth))
        bad  == \/ \E i \in 1..Len(port) : port[i] \notin Digit
                \/ special /\ host = <<>>
                \/ \E i \in 1..Len(host) : host[i] \in ForbiddenHostChar
    IN  [ok |-> ~bad, host |-> IF special THEN ToLowerChars(host) ELSE host]

\* new URL(...) throws a TypeError
URLThrows == [ok |-> FALSE, hostname |-> <<>>, pathname |-> <<>>, query |-> <<>>]

\* the URL behind the scheme: rest is what follows the ":" of the scheme
ParseAfterScheme(special, rest) ==
    LET \* a special scheme skips every slash before the authority; any
        \* other scheme has an authority only behind "//"
        a0      == IF special THEN FirstIn(rest, 1, {c \in Range(rest) : c # "/"})
                   ELSE IF HasAt(rest, 1, <<"/","/">>) THEN 3 ELSE 0
        hasAuth == a0 # 0
        a1      == IF hasAuth THEN FirstIn(rest, a0, {"/", "?", "#"}) ELSE 1
        host    == IF hasAuth THEN ParseHost(SubSeq(rest, a0, a1 - 1), special)
                   ELSE [ok |-> TRUE, host |-> <<>>]
        p1      == FirstIn(rest, a1, {"?", "#"})
        rawPath == SubSeq(rest, a1, p1 - 1)
        q1      == FirstIn(rest, p1, {"#"})
        query   == IF p1 <= Len(rest) /\ rest[p1] = "?"
                   THEN SubSeq(rest, p1 + 1, q1 - 1) ELSE <<>>
    IN  IF ~host.ok THEN URLThrows
        ELSE [ok       |-> TRUE,
              hostname |-> host.host,
              pathname |-> IF special /\ rawPath = <<>> THEN <<"/">>
                           ELSE EncodePath(rawPath),
              query    |-> query]

ParseURL(cs) ==
    LET e == SchemeEnd(cs)
    IN  IF e = 0 THEN URLThrows
        ELSE ParseAfterScheme(ToLowerChars(SubSeq(cs, 1, e - 1)) \in SpecialSchemes,
                              SubSeq(cs, e + 1, Len(cs)))

\* the pieces of cs between the separators sep
RECURSIVE SplitOn(_, _)
SplitOn(cs, sep) ==
    LET i == FirstIn(cs, 1, {sep})
    IN  IF i > Len(cs) THEN <<cs>>
        ELSE <<SubSeq(cs, 1, i - 1)>> \o SplitOn(SubSeq(cs, i + 1, Len(cs)), sep)

\* application/x-www-form-urlencoded decoding of "+" (the inputs hold no "%")
FormDecode(cs) == [i \in 1..Len(cs) |-> IF cs[i] = "+" THEN " " ELSE cs[i]]

\* a regular-expression capture or a looked-up value: found, and the characters
Found(cs) == [found |-> TRUE, val |-> cs]
NotFound  == [found |-> FALSE, val |-> <<>>]

\* searchParams.get as a version that does not split the query at "&" would be: the
\* query read as a single pair
SearchParamsGetWhole(query, name) ==
    LET eq == FirstIn(query, 1, {"="})
    IN  IF FormDecode(SubSeq(query, 1, eq - 1)) = name /\ query # <<>>
        THEN Found(FormDecode(SubSeq(query, eq + 1, Len(query))))
        ELSE NotFound

\* parsed.searchParams.get(name): the value of the first pair called name, or null
SearchParamsGet(query, name) ==
    LET pieces == SelectSeq(SplitOn(query, "&"), LAMBDA p : p # <<>>)
        Name(p)  == FormDecode(SubSeq(p, 1, FirstIn(p, 1, {"="}) - 1))
        Value(p) == FormDecode(SubSeq(p, FirstIn(p, 1, {"="}) + 1, Len(p)))
        hits   == {i \in 1..Len(pieces) : Name(pieces[i]) = name}
    IN  IF hits = {} THEN NotFound ELSE Found(Value(pieces[Min(hits)]))

\* s.replace(lit, ""): the first occurrence of lit removed
RemoveFirst(cs, lit) ==
    LET at == {p \in 1..Len(cs) : HasAt(cs, p, lit)}
    IN  IF at = {} THEN cs
        ELSE SubSeq(cs, 1, Min(at) - 1) \o SubSeq(cs, Min(at) + Len(lit), Len(cs))

\* s.endsWith(lit)
EndsWith(cs, lit) == HasAt(cs, Len(cs) - Len(lit) + 1, lit)

\* the length of the longest run of characters of S in cs from position p on
RunLength(cs, p, S) == FirstIn(cs, p, Range(cs) \ S) - p

(***************************************************************************)
(* A regular expression of the shape (m1|m2|...)(class{least,}) searched in *)
(* cs: the leftmost position where some alternative, tried in order, is    *)
(* followed by at least `least` characters of the class; the capture is    *)
(* the longest such run.  NotFound when nothing matches (match() is null).  *)
(***************************************************************************)
RegexCapture(cs, markers, class, least) ==
    LET Ok(p, k) == /\ HasAt(cs, p, markers[k])
                    /\ RunLength(cs, p + Len(markers[k]), class) >= least
        hits == {p \in 1..Len(cs) : \E k \in 1..Len(markers) : Ok(p, k)}
    IN  IF hits = {} THEN NotFound
        ELSE LET p == Min(hits)
                 k == Min({j \in 1..Len(markers) : Ok(p, j)})
                 s == p + Len(markers[k])
             IN  Found(SubSeq(cs, s, s + RunLength(cs, s, class) - 1))

\* /\/(shorts|live|embed)\/([^/?]+)/, capture group 2
PathMarkers == <<<<"/","s","h","o","r","t","s","/">>, <<"/","l","i","v","e","/">>, <<"/","e","m","b","e","d","/">>>>
PathMatch(path) == RegexCapture(path, PathMarkers, Range(path) \ {"/", "?"}, 1)

\* /(?:v=|youtu\.be\/|\/shorts\/|\/live\/|\/embed\/)([a-zA-Z0-9_-]{6,})/
FallbackMarkers == <<<<"v","=">>, <<"y","o","u","t","u",".","b","e","/">>, <<"/","s","h","o","r","t","s","/">>, <<"/","l","i","v","e","/">>, <<"/","e","m","b","e","d","/">>>>
MinIdLength == 6
FallbackMatch(cs) == RegexCapture(cs, FallbackMarkers, IdChar, MinIdLength)

(***************************************************************************)
(* extractVideoId(input), server.js lines 91-124.  The outcome is a record *)
(* [kind, val]: a string (val its Text), null, or thrown when an exception *)
(* leaves the function.                                                    *)
(***************************************************************************)
JsString(t) == [kind |-> "string", val |-> t]
JsNull      == [kind |-> "null", val |-> <<>>]
JsThrown    == [kind |-> "thrown", val |-> <<>>]

\* control leaves the try block: by a return, by falling out of it, by an exception
TryReturn(cs) == [how |-> "return", val |-> cs]
TryNext       == [how |-> "next", val |-> <<>>]
TryThrow      == [how |-> "throw", val |-> <<>>]

\* lines 96-113: the id read from the parsed URL
IdFromParsed(parsed) ==
    LET host   == RemoveFirst(parsed.hostname, <<"w","w","w",".">>)
        idFromQuery == SearchParamsGet(parsed.query, <<"v">>)
        pathMatch   == PathMatch(parsed.pathname)
    IN  IF ~parsed.ok THEN TryThrow
        ELSE IF host = <<"y","o","u","t","u",".","b","e">>
        THEN TryReturn(SelectSeq(parsed.pathname, LAMBDA c : c # "/"))
        ELSE IF EndsWith(host, <<"y","o","u","t","u","b","e",".","c","o","m">>)
        THEN IF idFromQuery.found /\ idFromQuery.val # <<>>
             THEN TryReturn(idFromQuery.val)
             ELSE IF pathMatch.found THEN TryReturn(pathMatch.val)
             ELSE TryNext
        ELSE TryNext

\* the try block, lines 94-114
StructuredParse(trimmed) == IdFromParsed(ParseURL(trimmed))

\* the try block without its catch: the exception of new URL leaves the function
CatchRethrows(outcome) == outcome

\* catch (error) { }, lines 115-117: a thrown parse continues with the fallback
CatchIgnored(outcome) == IF outcome.how = "throw" THEN TryNext ELSE outcome

\* lines 119-123: the fallback pattern, reached when the try block returned nothing
FallbackResult(outcome, trimmed) ==
    LET fallbackMatch == FallbackMatch(trimmed)
    IN  IF outcome.how = "throw" THEN JsThrown
        ELSE IF outcome.how = "return" THEN JsString(Str(outcome.val))
        ELSE IF fallbackMatch.found THEN JsString(Str(fallbackMatch.val))
        ELSE JsNull

extractVideoId(input) ==
    LET trimmed == Expand(Trim(input))
    IN  FallbackResult(CatchIgnored(StructuredParse(trimmed)), trimmed)

(***************************************************************************)
(* The inputs extractVideoId is applied to.                                *)
(***************************************************************************)
\* the longest id tried; real YouTube ids have 11 characters
MaxIdLen == 11
IdSource == <<"d","Q","w","4","w","9","-","g","X","_","Q","z">>
\* an id-like token of n characters
IdOf(n)  == SubSeq(IdSource, 1, n)
Ids      == {IdOf(n) : n \in 1..MaxIdLen}

Schemes  == {<<"h","t","t","p","s",":","/","/">>, <<"h","t","t","p",":","/","/">>}
\* every URL of the shapes youtu.be/<id>, watch?v=<id>, /shorts/<id>, /live/<id>,
\* /embed/<id>, with its embedded id
ValidCases ==
    {[url |-> s \o w \o <<"y","o","u","t","u",".","b","e","/">> \o id \o q, id |-> id] :
        s \in Schemes, w \in {<<>>, <<"w","w","w",".">>}, id \in Ids,
        q \in {<<>>, <<"?","t","=","5">>, <<"?","s","i","=","a","b","_","c","&","t","=","5">>}}
    \cup
    {[url |-> s \o w \o <<"y","o","u","t","u","b","e",".","c","o","m","/","w","a","t","c","h","?">> \o b \o <<"v","=">> \o id \o q, id |-> id] :
        s \in Schemes, w \in {<<>>, <<"w","w","w",".">>, <<"m",".">>}, id \in Ids,
        b \in {<<>>, <<"t","=","5","&">>, <<"l","i","s","t","=","P","L","v","&">>}, q \in {<<>>, <<"&","t","=","5">>}}
    \cup
    {[url |-> s \o w \o <<"y","o","u","t","u","b","e",".","c","o","m","/">> \o k \o <<"/">> \o id \o q, id |-> id] :
        s \in Schemes, w \in {<<>>, <<"w","w","w",".">>, <<"m",".">>}, id \in Ids,
        k \in {<<"s","h","o","r","t","s">>, <<"l","i","v","e">>, <<"e","m","b","e","d">>}, q \in {<<>>, <<"?","f","e","a","t","u","r","e","=","s","h","a","r","e">>}}

\* inputs of other shapes: no URL at all, URLs without an id, ids behind no scheme
OtherInputs ==
    { <<>>, <<" "," "," ">>, <<"n","o","t"," ","a"," ","u","r","l">>, <<"h","t","t","p","s",":","/","/">>, <<"h","t","t","p","s",":","/","/","y","o","u","t","u",".","b","e","/">>, <<"h","t","t","p","s",":","/","/","y","o","u","t","u",".","b","e">>,
      <<"h","t","t","p","s",":","/","/","w","w","w",".","y","o","u","t","u","b","e",".","c","o","m","/","w","a","t","c","h">>, <<"h","t","t","p","s",":","/","/","w","w","w",".","y","o","u","t","u","b","e",".","c","o","m","/","w","a","t","c","h","?","v","=">>,
      <<"h","t","t","p","s",":","/","/","w","w","w",".","y","o","u","t","u","b","e",".","c","o","m","/","s","h","o","r","t","s","/">>, <<"h","t","t","p","s",":","/","/","w","w","w",".","y","o","u","t","u","b","e",".","c","o","m","/","s","h","o","r","t","s","/","/","d","Q","w","4","w","9","-","g","X","_","Q">>,
      <<"h","t","t","p","s",":","/","/","w","w","w",".","y","o","u","t","u","b","e",".","c","o","m","/","p","l","a","y","l","i","s","t","?","l","i","s","t","=","P","L","d","Q","w","4","w","9","-","g","X","_","Q">>,
      <<"h","t","t","p","s",":","/","/","e","x","a","m","p","l","e",".","c","o","m","/","w","a","t","c","h","?","v","=","d","Q","w","4","w","9","-","g","X","_","Q">>, <<"h","t","t","p","s",":","/","/","e","x","a","m","p","l","e",".","c","o","m","/","d","Q","w","4","w","9","-","g","X","_","Q">>,
      <<"h","t","t","p","s",":","/","/","w","w","w",".","y","o","u","t","u","b","e",".","c","o","m","/","w","a","t","c","h","?","v","=","a","+","b">>, <<"h","t","t","p","s",":","/","/","y","o","u","t","u",".","b","e","/","d","Q","w","4"," ","w","9","g","X">>,
      <<"h","t","t","p","s",":","/","/","y","o","u","t","u",".","b","e","/","d","Q","w","4","w","9","-","g","X","_","Q","/","e","x","t","r","a">>, <<" "," ","h","t","t","p","s",":","/","/","y","o","u","t","u",".","b","e","/","d","Q","w","4","w","9","-","g","X","_","Q"," "," ">>,
      <<"H","T","T","P","S",":","/","/","W","W","W",".","Y","o","u","T","u","b","e",".","C","O","M","/","w","a","t","c","h","?","v","=","d","Q","w","4","w","9","-","g","X","_","Q">>, <<"h","t","t","p","s",":","/","/","y","o","u","t","u",".","b","e",":","4","4","3","/","d","Q","w","4","w","9","-","g","X","_","Q">>,
      <<"h","t","t","p","s",":","/","/","y","o","u","t","u",".","b","e",":","x","/","d","Q","w","4","w","9","-","g","X","_","Q">>, <<"h","t","t","p","s",":","y","o","u","t","u",".","b","e","/","d","Q","w","4","w","9","-","g","X","_","Q">>,
      <<"w","a","t","c","h",":","v","=","d","Q","w","4","w","9","-","g","X","_","Q">>, <<"a","p","p",":","/","/","y","o","u","t","u",".","b","e","/","d","Q","w","4","w","9","-","g","X","_","Q">>, <<"v","=","d","Q","w","4","w">>, <<"x","v","=","d","Q","w","4","w","9"," ","v","=","d","Q","w","4","w","9","-","g","X","_","Q">> }
    \cup {<<"y","o","u","t","u",".","b","e","/">> \o id : id \in Ids}
    \cup {<<"w","w","w",".","y","o","u","t","u","b","e",".","c","o","m","/","w","a","t","c","h","?","v","=">> \o id \o <<"&","t","=","5">> : id \in Ids}
    \cup {<<"s","e","e"," ","/","e","m","b","e","d","/">> \o id \o <<"!">> : id \in Ids}

ExtractInputs == {Str(c.url) : c \in ValidCases} \cup {Str(cs) : cs \in OtherInputs}

ExtractIdle == xInput = <<>> /\ xResult = JsNull /\ xPc = "off"

ExtractStart ==
    /\ xInput \in ExtractInputs
    /\ xResult = JsNull
    /\ xPc = "call"

\* const videoId = extractVideoId(url)
ExtractCall ==
    /\ xPc = "call"
    /\ xResult' = extractVideoId(xInput)
    /\ xPc' = "done"
    /\ UNCHANGED xInput
    /\ UNCHANGED <<textVars, serverVars, clientVars>>

(***************************************************************************)
(* Transcript segments.  The `text` property of a segment is a string; a   *)
(* reply of the transcript collaborator may also carry another value there *)
(* (an array), which has a string form and a length of its own and has no  *)
(* replace method.  A segment is the record of its text property: kind,    *)
(* str = String(text), length = text.length.                               *)
(***************************************************************************)
StrSeg(t)     == [kind |-> "string", str |-> t, length |-> TextLen(t)]
\* a segment whose text is the array elems of strings
ArrSeg(elems) == [kind |-> "array", str |-> JoinTexts(elems, Str(<<",">>)), length |-> Len(elems)]

\* segments.map((segment) => segment.text).join(" ")
JoinSegmentTexts(segments) ==
    JoinTexts([i \in 1..Len(segments) |-> segments[i].str], Str(<<" ">>))

\* normalizeTranscript(segments), server.js lines 126-132
normalizeTranscript(segments) == Trim(CollapseWs(JoinSegmentTexts(segments)))

\* segmentsToText(segments), server.js lines 306-312
segmentsToText(segments) == Trim(CollapseWs(JoinSegmentTexts(segments)))

MAX_TRANSCRIPT_CHARS == 12000
STYLE_LIMIT  == 240
DETAIL_LIMIT == 500
LANGUAGE_LIMIT == 40

\* the limit test with >= in place of >
TruncatedFlagAtLimit(transcriptText) == TextLen(transcriptText) >= MAX_TRANSCRIPT_CHARS

\* lines 53-57 of the handler: the transcript sent back and its truncated flag
TruncatedFlag(transcriptText) == TextLen(transcriptText) > MAX_TRANSCRIPT_CHARS
TranscriptOf(segments) ==
    LET transcriptText == normalizeTranscript(segments)
        truncated      == TruncatedFlag(transcriptText)
    IN  [truncated  |-> truncated,
         transcript |-> IF truncated
                        THEN Cat(SliceTo(transcriptText, MAX_TRANSCRIPT_CHARS), Str(<<" ",".",".",".">>))
                        ELSE transcriptText]

(***************************************************************************)
(* A property of the request body: undefined (missing), or a string.       *)
(***************************************************************************)
JsUndefined == [kind |-> "undefined", val |-> <<>>]
\* !value
Falsy(v) == v.kind \in {"undefined", "null"} \/ (v.kind = "string" /\ v.val = <<>>)

\* clampText(value, maxLength), server.js lines 134-140
clampText(value, maxLength) ==
    IF Falsy(value) THEN <<>>
    ELSE SliceTo(Trim(CollapseWs(value.val)), maxLength)

\* buildStyleDescriptor(stylePreset, styleDetail, language), server.js lines 142-159
buildStyleDescriptor(stylePreset, styleDetail, language) ==
    LET safePreset   == clampText(stylePreset, STYLE_LIMIT)
        safeDetail   == clampText(styleDetail, DETAIL_LIMIT)
        safeLanguage == clampText(language, LANGUAGE_LIMIT)
        parts == (IF safePreset # <<>> THEN <<safePreset>> ELSE <<>>)
              \o (IF safeDetail # <<>> THEN <<safeDetail>> ELSE <<>>)
              \o (IF safeLanguage # <<>> /\ safeLanguage # Str(<<"a","u","t","o">>)
                  THEN <<Cat(Str(<<"O","u","t","p","u","t"," ","l","a","n","g","u","a","g","e",":"," ">>), safeLanguage)>> ELSE <<>>)
    IN  JoinTexts(parts, Str(<<" ","|"," ">>))

(***************************************************************************)
(* lengthSpecFromChoice(choice), server.js lines 161-170.  lengthMap is an *)
(* object literal: lengthMap[key] finds its own three properties and,      *)
(* through the prototype chain, the properties of Object.prototype.  The   *)
(* value found is a string, a function or an object; val is its string     *)
(* form, which is what a template literal prints.                          *)
(***************************************************************************)
SHORT_SPEC  == Str(<<"3","0","0","-","4","5","0"," ","w","o","r","d","s">>)
MEDIUM_SPEC == Str(<<"6","0","0","-","9","0","0"," ","w","o","r","d","s">>)
LONG_SPEC   == Str(<<"1","0","0","0","-","1","4","0","0"," ","w","o","r","d","s">>)

ObjectPrototypeFunctions ==
    { <<"c","o","n","s","t","r","u","c","t","o","r">>, <<"h","a","s","O","w","n","P","r","o","p","e","r","t","y">>, <<"i","s","P","r","o","t","o","t","y","p","e","O","f">>, <<"p","r","o","p","e","r","t","y","I","s","E","n","u","m","e","r","a","b","l","e">>,
      <<"t","o","L","o","c","a","l","e","S","t","r","i","n","g">>, <<"t","o","S","t","r","i","n","g">>, <<"v","a","l","u","e","O","f">>, <<"_","_","d","e","f","i","n","e","G","e","t","t","e","r","_","_">>, <<"_","_","d","e","f","i","n","e","S","e","t","t","e","r","_","_">>,
      <<"_","_","l","o","o","k","u","p","G","e","t","t","e","r","_","_">>, <<"_","_","l","o","o","k","u","p","S","e","t","t","e","r","_","_">> }

\* String(f) of a built-in function
NativeFunctionText(name) ==
    Str(<<"f","u","n","c","t","i","o","n"," ">> \o (IF name = <<"c","o","n","s","t","r","u","c","t","o","r">> THEN <<"O","b","j","e","c","t">> ELSE name)
        \o <<"(",")"," ","{"," ","[","n","a","t","i","v","e"," ","c","o","d","e","]"," ","}">>)

\* lengthMap[key]
LengthMapLookup(key) ==
    IF key = <<"s","h","o","r","t">> THEN JsString(SHORT_SPEC)
    ELSE IF key = <<"m","e","d","i","u","m">> THEN JsString(MEDIUM_SPEC)
    ELSE IF key = <<"l","o","n","g">> THEN JsString(LONG_SPEC)
    ELSE IF key \in ObjectPrototypeFunctions
         THEN [kind |-> "function", val |-> NativeFunctionText(key)]
    ELSE IF key = <<"_","_","p","r","o","t","o","_","_">> THEN [kind |-> "object", val |-> Str(<<"[","o","b","j","e","c","t"," ","O","b","j","e","c","t","]">>)]
    ELSE JsUndefined

lengthSpecFromChoice(choice) ==
    LET normalized == ToLowerChars(IF Falsy(choice) THEN <<>> ELSE Expand(choice.val))
        found      == LengthMapLookup(normalized)
    IN  IF Falsy(found) THEN JsString(MEDIUM_SPEC) ELSE found

(***************************************************************************)
(* The rule-based article, server.js lines 256-330.                        *)
(***************************************************************************)
DEFAULT_TITLE   == Str(<<"P","o","d","c","a","s","t"," ","S","u","m","m","a","r","y">>)
DEFAULT_CLOSING == Str(<<"T","h","e"," ","d","i","s","c","u","s","s","i","o","n"," ","c","o","n","c","l","u","d","e","s"," ","w","i","t","h"," ","a"," ","w","r","a","p","-","u","p"," ","o","f"," ","k","e","y"," ","t","a","k","e","a","w","a","y","s",".">>)
TITLE_MIN   == 5
TITLE_LIMIT == 70
POINT_COUNT == 5
POINT_WINDOW == 3
EDGE_SEGMENTS == 6

\* buildTitle(segments), lines 293-304: a string, or thrown when the seed found has
\* no replace method
buildTitle(segments) ==
    LET hits == {i \in 1..Len(segments) :
                    /\ segments[i].kind = "array" \/ segments[i].str # <<>>
                    /\ segments[i].length > TITLE_MIN}
        seed    == IF hits = {} THEN StrSeg(DEFAULT_TITLE) ELSE segments[Min(hits)]
        cleaned == Trim(CollapseWs(seed.str))
    IN  IF seed.kind # "string" THEN JsThrown
        ELSE IF cleaned = <<>> THEN JsString(DEFAULT_TITLE)
        ELSE IF TextLen(cleaned) > TITLE_LIMIT
             THEN JsString(Cat(Trim(SliceTo(cleaned, TITLE_LIMIT)), Str(<<".",".",".">>)))
        ELSE JsString(cleaned)

\* the stride rounded up in place of down
SampleStepRoundedUp(n, count) == n \div count + 1

\* Math.max(1, Math.floor(segments.length / count))
SampleStep(n, count) == Max({1, n \div count})

\* segmentsToText(segments.slice(i, i + 3)) for the 0-based index i
SampleChunk(segments, i) == segmentsToText(ArraySlice(segments, i, i + POINT_WINDOW))

RECURSIVE SampleLoop(_, _, _, _, _)
\* the for loop of samplePoints from index i (0-based) on, with the points so far
SampleLoop(segments, count, step, i, points) ==
    IF ~(i < Len(segments) /\ Len(points) < count) THEN points
    ELSE LET chunk == SampleChunk(segments, i)
         IN  SampleLoop(segments, count, step, i + step,
                        IF chunk # <<>> THEN Append(points, chunk) ELSE points)

\* samplePoints(segments, count), lines 314-330
samplePoints(segments, count) ==
    IF Len(segments) = 0 THEN <<>>
    ELSE SampleLoop(segments, count, SampleStep(Len(segments), count), 0, <<>>)

H_TITLE    == Str(<<"#"," ">>)
H_OVERVIEW == Str(<<"#","#"," ","O","v","e","r","v","i","e","w">>)
H_TARGET   == Str(<<"T","a","r","g","e","t"," ","l","e","n","g","t","h",":"," ">>)
H_POINTS   == Str(<<"#","#"," ","K","e","y"," ","P","o","i","n","t","s">>)
H_CLOSING  == Str(<<"#","#"," ","C","l","o","s","i","n","g">>)
H_SOURCE   == Str(<<"#","#"," ","S","o","u","r","c","e"," ","N","o","t","e","s">>)
NOTE_TRUNCATED == Str(<<"N","o","t","e",":"," ","t","r","a","n","s","c","r","i","p","t"," ","t","r","u","n","c","a","t","e","d"," ","t","o"," ","f","i","t"," ","c","o","n","t","e","x","t",".">>)
NOTE_FULL      == Str(<<"N","o","t","e",":"," ","t","r","a","n","s","c","r","i","p","t"," ","f","u","l","l","y"," ","i","n","c","l","u","d","e","d"," ","f","o","r"," ","t","h","i","s"," ","s","u","m","m","a","r","y",".">>)
NOTE_TAIL      == Str(<<" ","T","h","i","s"," ","a","r","t","i","c","l","e"," ","i","s"," ","g","e","n","e","r","a","t","e","d"," ","f","r","o","m"," ","t","h","e"," ","t","r","a","n","s","c","r","i","p","t"," ","a","n","d"," ","m","a","y"," ","o","m","i","t"," ","d","e","t","a","i","l","s",".">>)
NEWLINE    == Str(<<"\n">>)

\* the lines of an article that leaves the Key Points section out when no point was
\* sampled
ArticleLinesWithoutEmptySection(title, segments, styleDescriptor, lengthSpec, truncated) ==
    LET intro   == segmentsToText(ArraySlice(segments, 0, EDGE_SEGMENTS))
        closing == segmentsToText(ArraySlice(segments, 0 - EDGE_SEGMENTS, Len(segments)))
        points  == samplePoints(segments, POINT_COUNT)
        styleLine == IF styleDescriptor # <<>>
                     THEN CatAll(<<Str(<<"S","t","y","l","e"," ","f","o","c","u","s",":"," ">>), styleDescriptor, Str(<<".">>)>>)
                     ELSE Str(<<"S","t","y","l","e"," ","f","o","c","u","s",":"," ","n","e","u","t","r","a","l"," ","s","u","m","m","a","r","y",".">>)
        scopeLine == IF truncated THEN NOTE_TRUNCATED ELSE NOTE_FULL
    IN  << Cat(H_TITLE, title), <<>>, H_OVERVIEW, CatAll(<<styleLine, Str(<<" ">>), intro>>), <<>>,
           CatAll(<<H_TARGET, lengthSpec.val, Str(<<".">>)>>), <<>> >>
        \o (IF points = <<>> THEN <<>>
            ELSE << H_POINTS,
                    JoinTexts([i \in 1..Len(points) |-> Cat(Str(<<"-"," ">>), points[i])], NEWLINE),
                    <<>> >>)
        \o << H_CLOSING, IF closing # <<>> THEN closing ELSE DEFAULT_CLOSING, <<>>,
              H_SOURCE, Cat(scopeLine, NOTE_TAIL) >>

\* the array of lines ruleBasedArticle joins, given the title
ArticleLines(title, segments, styleDescriptor, lengthSpec, truncated) ==
    LET intro   == segmentsToText(ArraySlice(segments, 0, EDGE_SEGMENTS))
        closing == segmentsToText(ArraySlice(segments, 0 - EDGE_SEGMENTS, Len(segments)))
        points  == samplePoints(segments, POINT_COUNT)
        styleLine == IF styleDescriptor # <<>>
                     THEN CatAll(<<Str(<<"S","t","y","l","e"," ","f","o","c","u","s",":"," ">>), styleDescriptor, Str(<<".">>)>>)
                     ELSE Str(<<"S","t","y","l","e"," ","f","o","c","u","s",":"," ","n","e","u","t","r","a","l"," ","s","u","m","m","a","r","y",".">>)
        scopeLine == IF truncated THEN NOTE_TRUNCATED ELSE NOTE_FULL
    IN  << Cat(H_TITLE, title),
           <<>>,
           H_OVERVIEW,
           CatAll(<<styleLine, Str(<<" ">>), intro>>),
           <<>>,
           CatAll(<<H_TARGET, lengthSpec.val, Str(<<".">>)>>),
           <<>>,
           H_POINTS,
           JoinTexts([i \in 1..Len(points) |-> Cat(Str(<<"-"," ">>), points[i])], NEWLINE),
           <<>>,
           H_CLOSING,
           IF closing # <<>> THEN closing ELSE DEFAULT_CLOSING,
           <<>>,
           H_SOURCE,
           Cat(scopeLine, NOTE_TAIL) >>

\* ruleBasedArticle({segments, styleDescriptor, lengthSpec, truncated}), lines 256-291
ruleBasedArticle(segments, styleDescriptor, lengthSpec, truncated) ==
    LET title == buildTitle(segments)
    IN  IF title.kind = "thrown" THEN JsThrown
        ELSE JsString(JoinTexts(
                 ArticleLines(title.val, segments, styleDescriptor, lengthSpec, truncated),
                 NEWLINE))

(***************************************************************************)
(* The inputs the text functions are applied to.                           *)
(***************************************************************************)
\* the longest patterned segment sequence
MaxSegs == 21
\* the longest sequence of freely chosen segment texts
MaxFreeSegs == 2
\* how far below and above MAX_TRANSCRIPT_CHARS the long transcripts reach
MaxDelta == 2

W(n)     == Rep("w", n)
Blank(n) == Rep(" ", n)

\* the segment sequences of n segments that follow a pattern
PatternSegs(n) ==
    { [i \in 1..n |-> StrSeg(Str(<<"w","o","r","d">>))],                      \* n times "word"
      [i \in 1..n |-> StrSeg(W(i))],                             \* "w", "ww", "www", ...
      [i \in 1..n |-> StrSeg(W(15 * i))],                        \* fifteen more w each
      [i \in 1..n |-> StrSeg(Blank(2))],                         \* only whitespace
      [i \in 1..n |-> StrSeg(<<>>)],                             \* empty texts
      [i \in 1..n |-> StrSeg(IF i % 2 = 1 THEN Blank(1) ELSE W(i))],
      [i \in 1..n |-> StrSeg(IF i % 4 = 0 THEN W(i) ELSE Str(<<"\n">>))],
      [i \in 1..n |-> StrSeg(CatAll(<<Blank(1), W(i), Str(<<"\n","\t"," ">>), W(2), Blank(3)>>))] }

\* texts chosen freely: blank ones, ones that read like a line of the article,
\* ones around the title limits
FreeTexts ==
    { <<>>, Blank(1), Str(<<"h","e","l","l","o">>), Str(<<"#","#"," ","C","l","o","s","i","n","g">>), Str(<<"#","#"," ","O","v","e","r","v","i","e","w">>),
      Str(<<"#"," ","I","n","t","r","o">>), Str(<<"T","a","r","g","e","t"," ","l","e","n","g","t","h",":"," ","5">>), W(TITLE_LIMIT), W(TITLE_LIMIT + 1),
      CatAll(<<W(TITLE_LIMIT - 1), Blank(2), W(4)>>) }

RECURSIVE SeqsUpTo(_, _)
\* the sequences over S of at most n elements
SeqsUpTo(S, n) ==
    IF n = 0 THEN {<<>>}
    ELSE LET shorter == SeqsUpTo(S, n - 1)
         IN  shorter \cup {Append(s, x) : s \in {t \in shorter : Len(t) = n - 1}, x \in S}

FreeSegs == {[i \in 1..Len(ts) |-> StrSeg(ts[i])] : ts \in SeqsUpTo(FreeTexts, MaxFreeSegs)}

\* transcripts whose length is around MAX_TRANSCRIPT_CHARS
LongSegs ==
    UNION { { <<StrSeg(W(MAX_TRANSCRIPT_CHARS + d))>>,
              <<StrSeg(W(MAX_TRANSCRIPT_CHARS \div 2)), StrSeg(W(MAX_TRANSCRIPT_CHARS \div 2 + d))>>,
              <<StrSeg(Cat(W(MAX_TRANSCRIPT_CHARS + d), Blank(3)))>>,
              <<StrSeg(Cat(Blank(2), W(MAX_TRANSCRIPT_CHARS + d))), StrSeg(Blank(1))>>,
              <<StrSeg(CatAll(<<W(MAX_TRANSCRIPT_CHARS - 5), Str(<<"\n","\n">>), W(4 + d)>>))>>,
              <<StrSeg(W(MAX_TRANSCRIPT_CHARS - 2)), StrSeg(Rep("x", 1 + d)), StrSeg(Str(<<"t","a","i","l">>))>>,
              [i \in 1..4 |-> StrSeg(W(MAX_TRANSCRIPT_CHARS \div 4 + d))] }
            : d \in (0 - MaxDelta)..MaxDelta }

SegInputs == UNION {PatternSegs(n) : n \in 0..MaxSegs} \cup FreeSegs

\* the style fields of a request body
StyleInputs ==
    { [stylePreset |-> JsUndefined, styleDetail |-> JsUndefined, language |-> JsUndefined],
      [stylePreset |-> JsString(Str(<<" ","c","a","s","u","a","l","\n"," ","t","o","n","e"," ">>)), styleDetail |-> JsString(<<>>),
       language |-> JsString(Str(<<"a","u","t","o">>))],
      [stylePreset |-> JsString(W(STYLE_LIMIT + 10)), styleDetail |-> JsString(Str(<<"#","#"," ","C","l","o","s","i","n","g">>)),
       language |-> JsString(Str(<<"F","r","e","n","c","h">>))] }

\* the length choices of a request body
ChoiceInputs ==
    { JsUndefined } \cup
    { JsString(Str(cs)) : cs \in { <<>>, <<"s","h","o","r","t">>, <<"m","e","d","i","u","m">>, <<"l","o","n","g">>, <<"S","h","o","r","t">>, <<"L","O","N","G">>, <<"b","r","i","e","f">>,
                                   <<"s","h","o","r","t","e","r">>, <<"c","o","n","s","t","r","u","c","t","o","r">>, <<"_","_","p","r","o","t","o","_","_">>, <<"t","o","S","t","r","i","n","g">>, <<"v","a","l","u","e","O","f">>,
                                   <<"t","o","s","t","r","i","n","g">>, <<"h","a","s","O","w","n","P","r","o","p","e","r","t","y">> } }
ArticleChoices == { JsUndefined, JsString(Str(<<"l","o","n","g">>)), JsString(Str(<<"c","o","n","s","t","r","u","c","t","o","r">>)) }

NoStyle == [stylePreset |-> JsUndefined, styleDetail |-> JsUndefined, language |-> JsUndefined]
NoOutput == JsUndefined

TextIdle ==
    /\ tSegments = <<>> /\ tStyle = NoStyle /\ tChoice = JsUndefined /\ tTruncated = FALSE
    /\ tPc = "off" /\ tOut = NoOutput

\* one function and its arguments are chosen; the other inputs stay at their defaults
TextStart ==
    /\ tOut = NoOutput
    /\ \/ /\ tPc = "normalize"
          /\ tSegments \in SegInputs \cup LongSegs
          /\ tStyle = NoStyle /\ tChoice = JsUndefined /\ tTruncated = FALSE
       \/ /\ tPc = "sample"
          /\ tSegments \in SegInputs
          /\ tStyle = NoStyle /\ tChoice = JsUndefined /\ tTruncated = FALSE
       \/ /\ tPc = "article"
          /\ tSegments \in SegInputs
          /\ tStyle \in StyleInputs
          /\ tChoice \in ArticleChoices
          /\ tTruncated \in BOOLEAN
       \/ /\ tPc = "length"
          /\ tSegments = <<>> /\ tStyle = NoStyle /\ tTruncated = FALSE
          /\ tChoice \in ChoiceInputs

\* lines 53-57 applied to the segments
NormalizeCall ==
    /\ tPc = "normalize"
    /\ tOut' = TranscriptOf(tSegments)
    /\ tPc' = "normalized"
    /\ UNCHANGED <<tSegments, tStyle, tChoice, tTruncated>>
    /\ UNCHANGED <<extractVars, serverVars, clientVars>>

\* samplePoints(segments, 5)
SampleCall ==
    /\ tPc = "sample"
    /\ tOut' = samplePoints(tSegments, POINT_COUNT)
    /\ tPc' = "sampled"
    /\ UNCHANGED <<tSegments, tStyle, tChoice, tTruncated>>
    /\ UNCHANGED <<extractVars, serverVars, clientVars>>

\* the rule-based branch of generateArticle, lines 181-186 and 204-212
ArticleCall ==
    /\ tPc = "article"
    /\ tOut' = ruleBasedArticle(
                   tSegments,
                   buildStyleDescriptor(tStyle.stylePreset, tStyle.styleDetail, tStyle.language),
                   lengthSpecFromChoice(tChoice),
                   tTruncated)
    /\ tPc' = "articled"
    /\ UNCHANGED <<tSegments, tStyle, tChoice, tTruncated>>
    /\ UNCHANGED <<extractVars, serverVars, clientVars>>

\* lengthSpecFromChoice(length)
LengthCall ==
    /\ tPc = "length"
    /\ tOut' = lengthSpecFromChoice(tChoice)
    /\ tPc' = "lengthed"
    /\ UNCHANGED <<tSegments, tStyle, tChoice, tTruncated>>
    /\ UNCHANGED <<extractVars, serverVars, clientVars>>

(***************************************************************************)
(* The server: POST /api/generate, server.js lines 22-81, and              *)
(* generateArticle, lines 172-213.  A request is served in up to three     *)
(* steps, separated by the two awaits: the transcript fetch (line 38) and  *)
(* the OpenAI call (line 190).  Several requests are in flight at once and *)
(* their steps interleave.                                                 *)
(***************************************************************************)
\* the number of requests in flight
NumRequests == 2
Requests == 1..NumRequests

ERR_NO_URL     == "Please provide a YouTube URL."
ERR_NO_ID      == "Unable to parse the YouTube video ID."
ERR_FETCH      == "Failed to fetch the transcript. Check if captions are available."
ERR_NO_CAPTION == "No transcript found for this video."
ERR_GENERATE   == "Failed to generate article."

\* res.status(status).json({ error })
ErrorResponse(status, error) ==
    [status |-> status, error |-> error, videoId |-> <<>>, transcript |-> <<>>,
     truncated |-> FALSE, article |-> <<>>, mode |-> ""]
\* res.json({ videoId, transcript, truncated, article: text, mode })
OkResponse(videoId, transcript, truncated, text, mode) ==
    [status |-> 200, error |-> "", videoId |-> videoId, transcript |-> transcript,
     truncated |-> truncated, article |-> text, mode |-> mode]

\* the local variables of one invocation of the handler and of generateArticle
EmptyFrame ==
    [videoId |-> <<>>, stylePreset |-> JsUndefined, styleDetail |-> JsUndefined,
     length |-> JsUndefined, language |-> JsUndefined, segments |-> <<>>,
     transcript |-> <<>>, truncated |-> FALSE, styleDescriptor |-> <<>>,
     lengthSpec |-> JsUndefined]

\* a step of the handler ends with a response, or suspends at an await with its locals
Respond(response) == [sent |-> <<response>>, await |-> "", frame |-> EmptyFrame]
Suspend(at, fr)   == [sent |-> <<>>, await |-> at, frame |-> fr]

\* the handler without the check of the id, lines 30-34
StartFetchUnchecked(b, videoId) ==
    Suspend("fetch",
            [EmptyFrame EXCEPT !.videoId = videoId.val,
                               !.stylePreset = b.stylePreset,
                               !.styleDetail = b.styleDetail,
                               !.length = b.length,
                               !.language = b.language])

\* lines 29-38: the id decides between the 400 response and the transcript fetch
StartFetch(b, videoId) ==
    IF videoId.kind = "null" \/ videoId.val = <<>>
    THEN Respond(ErrorResponse(400, ERR_NO_ID))
    ELSE Suspend("fetch",
                 [EmptyFrame EXCEPT !.videoId = videoId.val,
                                    !.stylePreset = b.stylePreset,
                                    !.styleDetail = b.styleDetail,
                                    !.length = b.length,
                                    !.language = b.language])

\* lines 23-38: from the request body to the call of the transcript collaborator
ValidateRequest(b) ==
    IF Falsy(b.url) \/ b.url.kind # "string"
    THEN Respond(ErrorResponse(400, ERR_NO_URL))
    ELSE StartFetch(b, extractVideoId(b.url.val))

\* lines 204-212 and 70-80: the rule-based article and the response it ends in
FallbackResponse(fr) ==
    LET article == ruleBasedArticle(fr.segments, fr.styleDescriptor, fr.lengthSpec, fr.truncated)
    IN  IF article.kind = "thrown"
        THEN Respond(ErrorResponse(500, ERR_GENERATE))
        ELSE Respond(OkResponse(fr.videoId, fr.transcript, fr.truncated, article.val, "fallback"))

\* process.env.OPENAI_API_KEY is set: line 188
UseOpenAI(key) == key

\* lines 39-68 and 181-190: from the collaborator's reply to the OpenAI call, or to
\* the response when there is no call
AfterFetch(fr, reply, key) ==
    LET t  == TranscriptOf(reply.segments)
        f2 == [fr EXCEPT !.segments = reply.segments,
                         !.transcript = t.transcript,
                         !.truncated = t.truncated,
                         !.styleDescriptor =
                             buildStyleDescriptor(fr.stylePreset, fr.styleDetail, fr.language),
                         !.lengthSpec = lengthSpecFromChoice(fr.length)]
    IN  IF reply.kind = "throw" THEN Respond(ErrorResponse(502, ERR_FETCH))
        ELSE IF reply.kind = "null" \/ Len(reply.segments) = 0
        THEN Respond(ErrorResponse(404, ERR_NO_CAPTION))
        ELSE IF UseOpenAI(key) THEN Suspend("openai", f2)
        ELSE FallbackResponse(f2)

\* (response.output_text || "").trim(), line 253
OutputText(reply) == Trim(reply.text)

\* generateArticle without the test of the text, line 196
TextAlwaysUsable(text) == TRUE

\* if (text), line 196
TextUsable(text) == text # <<>>

\* lines 190-212 and 70-80: from the reply of the OpenAI call to the response
AfterOpenAI(fr, reply) ==
    IF reply.kind = "text" /\ TextUsable(OutputText(reply))
    THEN Respond(OkResponse(fr.videoId, fr.transcript, fr.truncated, OutputText(reply), "openai"))
    ELSE FallbackResponse(fr)

\* the locals kept in one place for all invocations, as module-level variables would be
SharedFrame(r) == 1

\* the frame an invocation keeps its locals in: its own
Frame(r) == r

(***************************************************************************)
(* What the collaborators may answer, and the request bodies.              *)
(***************************************************************************)
BodyOf(url, preset, detail, length, language) ==
    [url |-> url, stylePreset |-> preset, styleDetail |-> detail, length |-> length,
     language |-> language]
NoBody == BodyOf(JsUndefined, JsUndefined, JsUndefined, JsUndefined, JsUndefined)

Bodies ==
    { NoBody,
      BodyOf([kind |-> "number", val |-> <<>>], JsUndefined, JsUndefined, JsUndefined, JsUndefined),
      BodyOf(JsString(Str(<<"n","o","t"," ","a"," ","u","r","l">>)), JsUndefined, JsUndefined, JsString(Str(<<"s","h","o","r","t">>)),
             JsUndefined),
      BodyOf(JsString(Str(<<"h","t","t","p","s",":","/","/","y","o","u","t","u",".","b","e","/">>)), JsUndefined, JsUndefined, JsUndefined, JsUndefined),
      BodyOf(JsString(Str(<<"h","t","t","p","s",":","/","/","y","o","u","t","u",".","b","e","/","d","Q","w","4","w","9","-","g","X","_","Q">>)), JsString(Str(<<"c","a","s","u","a","l">>)),
             JsString(Str(<<" ","w","i","t","h"," "," ","h","u","m","o","u","r"," ">>)), JsString(Str(<<"s","h","o","r","t">>)), JsString(Str(<<"F","r","e","n","c","h">>))),
      BodyOf(JsString(Str(<<" ","h","t","t","p","s",":","/","/","w","w","w",".","y","o","u","t","u","b","e",".","c","o","m","/","w","a","t","c","h","?","v","=","a","b","c","1","2","3","x","y","&","t","=","5">>)), JsUndefined,
             JsUndefined, JsString(Str(<<"o","t","h","e","r">>)), JsString(Str(<<"a","u","t","o">>))) }

NoFetchReply == [kind |-> "none", segments |-> <<>>]
FetchReplies ==
    { [kind |-> "throw", segments |-> <<>>],
      [kind |-> "null", segments |-> <<>>],
      [kind |-> "segments", segments |-> <<>>],
      [kind |-> "segments", segments |-> <<StrSeg(Str(<<"h","e","l","l","o"," "," ","w","o","r","l","d">>)), StrSeg(Str(<<" ","a","g","a","i","n","\n">>))>>],
      [kind |-> "segments", segments |-> <<StrSeg(Blank(1))>>],
      [kind |-> "segments",
       segments |-> <<StrSeg(Str(<<"i","n","t","r","o">>)), ArrSeg([i \in 1..6 |-> Str(<<"x">>)])>>] }

NoAiReply == [kind |-> "none", text |-> <<>>]
AiReplies ==
    { [kind |-> "throw", text |-> <<>>],
      [kind |-> "text", text |-> Str(<<" ","\n">>)],
      [kind |-> "text", text |-> Str(<<" ","A"," ","g","e","n","e","r","a","t","e","d"," ","a","r","t","i","c","l","e",".","\n">>)] }

ServerIdle ==
    /\ apiKey = FALSE /\ pc = <<>> /\ body = <<>> /\ frame = <<>> /\ fetchReply = <<>>
    /\ aiReply = <<>> /\ fetchCalls = <<>> /\ aiCalls = <<>> /\ responses = <<>>

ServerStart ==
    /\ apiKey \in BOOLEAN
    /\ pc = [r \in Requests |-> "idle"]
    /\ body = [r \in Requests |-> NoBody]
    /\ frame = [r \in Requests |-> EmptyFrame]
    /\ fetchReply = [r \in Requests |-> NoFetchReply]
    /\ aiReply = [r \in Requests |-> NoAiReply]
    /\ fetchCalls = [r \in Requests |-> 0]
    /\ aiCalls = [r \in Requests |-> 0]
    /\ responses = [r \in Requests |-> <<>>]

\* the effect of a step's outcome on request r
Apply(r, out) ==
    /\ responses' = [responses EXCEPT ![r] = @ \o out.sent]
    /\ frame' = [frame EXCEPT ![Frame(r)] = out.frame]
    /\ pc' = [pc EXCEPT ![r] = IF out.await = "" THEN "done"
                               ELSE IF out.await = "fetch" THEN "fetching"
                               ELSE "generating"]
    /\ fetchCalls' = [fetchCalls EXCEPT ![r] = @ + (IF out.await = "fetch" THEN 1 ELSE 0)]
    /\ aiCalls' = [aiCalls EXCEPT ![r] = @ + (IF out.await = "openai" THEN 1 ELSE 0)]

\* a request arrives: the handler runs to its first await or to a response
Receive(r) ==
    /\ pc[r] = "idle"
    /\ \E b \in Bodies :
          /\ body' = [body EXCEPT ![r] = b]
          /\ Apply(r, ValidateRequest(b))
    /\ UNCHANGED <<apiKey, fetchReply, aiReply, extractVars, textVars, clientVars>>

\* YoutubeTranscript.fetchTranscript settles: the handler resumes after line 38
FetchSettles(r) ==
    /\ pc[r] = "fetching"
    /\ \E reply \in FetchReplies :
          /\ fetchReply' = [fetchReply EXCEPT ![r] = reply]
          /\ Apply(r, AfterFetch(frame[Frame(r)], reply, apiKey))
    /\ UNCHANGED <<apiKey, body, aiReply, extractVars, textVars, clientVars>>

\* client.responses.create settles: generateArticle resumes after line 190
OpenAISettles(r) ==
    /\ pc[r] = "generating"
    /\ \E reply \in AiReplies :
          /\ aiReply' = [aiReply EXCEPT ![r] = reply]
          /\ Apply(r, AfterOpenAI(frame[Frame(r)], reply))
    /\ UNCHANGED <<apiKey, body, fetchReply, extractVars, textVars, clientVars>>

Next == \E r \in Requests : Receive(r) \/ FetchSettles(r) \/ OpenAISettles(r)

(***************************************************************************)
(* The browser page, public/app.js.  The state is what the page shows: the *)
(* status line, the two output panes, the mode label, the truncation note  *)
(* and the submit button.  The submit handler (lines 20-61) suspends at    *)
(* fetch (line 34) and at response.json() (line 46); a copy handler        *)
(* (lines 64-80) suspends at the clipboard write.  The page's strings are  *)
(* never taken apart, so they are plain strings here.                      *)
(***************************************************************************)
\* the clipboard writes that may be pending at once
MaxCopies == 1

DEFAULT_STATUS == "Paste a YouTube URL and click Generate to see results."
MSG_NO_URL     == "Please provide a YouTube URL."
MSG_WORKING    == "Fetching transcript and generating article..."
MSG_DONE       == "Done! Review the transcript and article below."
MSG_FAILED     == "Request failed."
MSG_WRONG      == "Something went wrong."
MSG_NO_COPY    == "Nothing to copy yet."
MSG_COPIED     == "Copied to clipboard."
MSG_COPY_FAIL  == "Clipboard copy failed."
MODE_OPENAI    == "Generation: OpenAI"
MODE_RULES     == "Generation: Rule-based (no API key detected)"

\* what fetch and response.json() may deliver: the server's replies, a reply whose
\* body is not JSON, and a JSON body without the expected properties
NoPayload == [ok |-> FALSE, json |-> FALSE, error |-> "", transcript |-> "", article |-> "",
              mode |-> "", truncated |-> FALSE]
SuccessPayload(transcript, article, mode, truncated) ==
    [ok |-> TRUE, json |-> TRUE, error |-> "", transcript |-> transcript, article |-> article,
     mode |-> mode, truncated |-> truncated]
FailurePayload(error) ==
    [ok |-> FALSE, json |-> TRUE, error |-> error, transcript |-> "", article |-> "",
     mode |-> "", truncated |-> FALSE]
ServerReplies ==
    { SuccessPayload("transcript one", "article one", "openai", FALSE),
      SuccessPayload("transcript two ...", "article two", "fallback", TRUE),
      FailurePayload(ERR_NO_ID), FailurePayload(ERR_FETCH), FailurePayload(ERR_NO_CAPTION),
      FailurePayload(ERR_GENERATE), FailurePayload(""),
      [NoPayload EXCEPT !.json = FALSE] }
\* error.message of a rejected fetch and of a rejected response.json()
NetworkErrors == {"Failed to fetch", ""}
ParseErrors   == {"Unexpected token < in JSON at position 0"}

ClientIdle ==
    /\ statusText = "" /\ statusError = FALSE /\ transcriptEl = "" /\ articleEl = ""
    /\ modeEl = "" /\ noteHidden = TRUE /\ btnDisabled = FALSE /\ cpc = "off"
    /\ pending = NoPayload /\ copyPending = 0

\* the page after the script has run: setStatus(defaultStatus), line 18
ClientStart ==
    /\ statusText = DEFAULT_STATUS
    /\ statusError = FALSE
    /\ transcriptEl = ""
    /\ articleEl = ""
    /\ modeEl = ""
    /\ noteHidden = TRUE
    /\ btnDisabled = FALSE
    /\ cpc = "idle"
    /\ pending = NoPayload
    /\ copyPending = 0

\* setStatus(message, isError), lines 83-86
setStatus(message, isError) ==
    /\ statusText' = message
    /\ statusError' = isError

\* updateMode(mode), lines 88-98: the new text of the mode label
updateMode(mode) ==
    IF mode = "" THEN ""
    ELSE IF mode = "openai" THEN MODE_OPENAI ELSE MODE_RULES

\* clearOutputs(), lines 100-104: the outputs <<transcript, article, mode, note hidden>>
\* after the call
clearOutputs(transcript, article, mode, hidden) == <<"", "", mode, TRUE>>

\* setLoading(isLoading), lines 106-109
setLoading(isLoading) == btnDisabled' = isLoading

\* the catch and finally blocks, lines 56-60
FailWith(message) ==
    /\ setStatus(IF message # "" THEN message ELSE MSG_WRONG, TRUE)
    /\ setLoading(FALSE)
    /\ cpc' = "idle"
    /\ pending' = NoPayload
    /\ UNCHANGED <<transcriptEl, articleEl, modeEl, noteHidden>>

\* the form is submitted, lines 20-44.  The browser submits the form only through
\* its submit button, so not while the button is disabled.
Submit ==
    /\ cpc = "idle"
    /\ ~btnDisabled
    /\ \E url \in {"", "https://youtu.be/dQw4w9-gX_Q"} :
          IF url = ""
          THEN /\ setStatus(MSG_NO_URL, TRUE)
               /\ UNCHANGED <<transcriptEl, articleEl, modeEl, noteHidden, btnDisabled, cpc>>
          ELSE LET cleared == clearOutputs(transcriptEl, articleEl, modeEl, noteHidden)
               IN  /\ setLoading(TRUE)
                   /\ setStatus(MSG_WORKING, FALSE)
                   /\ transcriptEl' = cleared[1]
                   /\ articleEl' = cleared[2]
                   /\ modeEl' = cleared[3]
                   /\ noteHidden' = cleared[4]
                   /\ cpc' = "fetching"
    /\ UNCHANGED <<pending, copyPending>>
    /\ UNCHANGED <<extractVars, textVars, serverVars>>

\* fetch resolves with a response, line 34
FetchResolves ==
    /\ cpc = "fetching"
    /\ \E reply \in ServerReplies : pending' = reply
    /\ cpc' = "parsing"
    /\ UNCHANGED <<statusText, statusError, transcriptEl, articleEl, modeEl, noteHidden,
                   btnDisabled, copyPending>>
    /\ UNCHANGED <<extractVars, textVars, serverVars>>

\* fetch rejects: the network failed
FetchRejects ==
    /\ cpc = "fetching"
    /\ \E message \in NetworkErrors : FailWith(message)
    /\ UNCHANGED copyPending
    /\ UNCHANGED <<extractVars, textVars, serverVars>>

\* response.json() resolves, lines 46-55 and 58-60
JsonResolves ==
    /\ cpc = "parsing"
    /\ pending.json
    /\ IF ~pending.ok
       THEN FailWith(IF pending.error # "" THEN pending.error ELSE MSG_FAILED)
       ELSE /\ transcriptEl' = pending.transcript
            /\ articleEl' = pending.article
            /\ modeEl' = updateMode(pending.mode)
            /\ noteHidden' = ~pending.truncated
            /\ setStatus(MSG_DONE, FALSE)
            /\ setLoading(FALSE)
            /\ cpc' = "idle"
            /\ pending' = NoPayload
    /\ UNCHANGED copyPending
    /\ UNCHANGED <<extractVars, textVars, serverVars>>

\* response.json() rejects: the body is not JSON
JsonRejects ==
    /\ cpc = "parsing"
    /\ ~pending.json
    /\ \E message \in ParseErrors : FailWith(message)
    /\ UNCHANGED copyPending
    /\ UNCHANGED <<extractVars, textVars, serverVars>>

\* a copy button is clicked, lines 64-75
CopyClick ==
    /\ cpc # "off"
    /\ copyPending < MaxCopies
    /\ \E content \in {transcriptEl, articleEl} :
          IF content = ""
          THEN setStatus(MSG_NO_COPY, TRUE) /\ UNCHANGED copyPending
          ELSE copyPending' = copyPending + 1 /\ UNCHANGED <<statusText, statusError>>
    /\ UNCHANGED <<transcriptEl, articleEl, modeEl, noteHidden, btnDisabled, cpc, pending>>
    /\ UNCHANGED <<extractVars, textVars, serverVars>>

\* navigator.clipboard.writeText resolves, line 76
CopyResolves ==
    /\ copyPending > 0
    /\ copyPending' = copyPending - 1
    /\ setStatus(MSG_COPIED, FALSE)
    /\ UNCHANGED <<transcriptEl, articleEl, modeEl, noteHidden, btnDisabled, cpc, pending>>
    /\ UNCHANGED <<extractVars, textVars, serverVars>>

\* navigator.clipboard.writeText rejects, lines 77-79
CopyRejects ==
    /\ copyPending > 0
    /\ copyPending' = copyPending - 1
    /\ setStatus(MSG_COPY_FAIL, TRUE)
    /\ UNCHANGED <<transcriptEl, articleEl, modeEl, noteHidden, btnDisabled, cpc, pending>>
    /\ UNCHANGED <<extractVars, textVars, serverVars>>

(***************************************************************************)
(* The specifications.  Each one runs one part of the program and keeps    *)
(* the variables of the other parts at rest.                               *)
(***************************************************************************)
\* the server with NumRequests requests in flight
Init == ServerStart /\ ExtractIdle /\ TextIdle /\ ClientIdle
Spec == Init /\ [][Next]_vars

\* extractVideoId applied to one input
NextExtract == ExtractCall
InitExtract == ExtractStart /\ TextIdle /\ ServerIdle /\ ClientIdle
SpecExtract == InitExtract /\ [][NextExtract]_vars

\* the transcript and article functions applied to one input
NextText == NormalizeCall \/ SampleCall \/ ArticleCall \/ LengthCall
InitText == TextStart /\ ExtractIdle /\ ServerIdle /\ ClientIdle
SpecText == InitText /\ [][NextText]_vars

\* the browser page
NextClient ==
    \/ Submit \/ FetchResolves \/ FetchRejects \/ JsonResolves \/ JsonRejects
    \/ CopyClick \/ CopyResolves \/ CopyRejects
InitClient == ClientStart /\ ExtractIdle /\ TextIdle /\ ServerIdle
SpecClient == InitClient /\ [][NextClient]_vars

(***************************************************************************)
(* The claims.  Each formula is an invariant of the specification named    *)
(* with it.                                                                *)
(***************************************************************************)

(***************************************************************************)
(* extractVideoId (SpecExtract).                                           *)
(***************************************************************************)
\* an id-like token: at least MinIdLength characters, all of [a-zA-Z0-9_-]
IsIdToken(cs) == Len(cs) >= MinIdLength /\ \A i \in 1..Len(cs) : cs[i] \in IdChar

\* cs holds one of the fallback pattern's markers followed by MinIdLength id characters
HasMarkedToken(cs) ==
    \E k \in 1..Len(FallbackMarkers), p \in 1..Len(cs) :
        /\ HasAt(cs, p, FallbackMarkers[k])
        /\ \A j \in 0..(MinIdLength - 1) :
              /\ p + Len(FallbackMarkers[k]) + j <= Len(cs)
              /\ cs[p + Len(FallbackMarkers[k]) + j] \in IdChar

\* cs parses as a URL whose host is youtu.be, or youtube.com or one of its subdomains
OnYouTube(cs) ==
    LET u    == ParseURL(cs)
        host == RemoveFirst(u.hostname, <<"w","w","w",".">>)
    IN  u.ok /\ (host = <<"y","o","u","t","u",".","b","e">> \/ EndsWith(host, <<"y","o","u","t","u","b","e",".","c","o","m">>))

\* C4 as stated: extractVideoId never throws, and every result that is not null is an
\* id-like token of 6 or more characters.
C4_NonNullIsIdToken ==
    xPc = "done" =>
        /\ xResult.kind \in {"string", "null"}
        /\ xResult.kind = "string" => IsIdToken(Expand(xResult.val))

\* C4 amended: extractVideoId never throws; it returns null only when the input holds
\* no marker followed by 6 id characters, and always when in addition the input is no
\* URL on youtu.be or youtube.com; a result that is not null is an id-like token of 6
\* or more characters unless the input is a URL on youtu.be or youtube.com, whose
\* path, v parameter or path segment is returned as found, whatever its length.
C4_NeverThrowsNullWithoutToken ==
    xPc = "done" =>
        LET trimmed == Expand(Trim(xInput))
        IN  /\ xResult.kind \in {"string", "null"}
            /\ xResult.kind = "null" => ~HasMarkedToken(trimmed)
            /\ (~HasMarkedToken(trimmed) /\ ~OnYouTube(trimmed)) => xResult.kind = "null"
            /\ (xResult.kind = "string" /\ ~OnYouTube(trimmed))
                   => IsIdToken(Expand(xResult.val))

\* a youtu.be URL with a path of three characters has been answered with that path
C4_Witness ==
    /\ xPc = "done"
    /\ xInput = Str(<<"h","t","t","p","s",":","/","/","y","o","u","t","u",".","b","e","/","d","Q","w">>)
    /\ xResult = JsString(Str(<<"d","Q","w">>))

\* the valid URLs as texts, each with its embedded id
ValidTexts == {[text |-> Str(c.url), id |-> Str(c.id)] : c \in ValidCases}

\* C5: for every valid URL of the shapes youtu.be/<id>, watch?v=<id>, /shorts/<id>,
\* /live/<id> and /embed/<id>, with or without www. and further query parameters,
\* extractVideoId returns exactly the embedded id.
C5_ReturnsEmbeddedId ==
    xPc = "done" =>
        \A c \in ValidTexts : c.text = xInput => xResult = JsString(c.id)

\* a watch URL with www. and a further parameter has been answered with its id
C5_Witness ==
    /\ xPc = "done"
    /\ xInput = Str(<<"h","t","t","p","s",":","/","/","w","w","w",".","y","o","u","t","u","b","e",".","c","o","m","/","w","a","t","c","h","?","v","=","d","Q","w","4","w","9","-","g","X","_","Q","&","t","=","5">>)
    /\ xResult = JsString(Str(<<"d","Q","w","4","w","9","-","g","X","_","Q">>))

(***************************************************************************)
(* The transcript and the rule-based article (SpecText).  The cleaned text *)
(* of segments is stated by its words: the maximal stretches without       *)
(* whitespace, in order, separated by single spaces.                       *)
(***************************************************************************)
RECURSIVE WordPieces(_, _, _)
\* the runs t[lo..hi] cut at every whitespace run
WordPieces(t, lo, hi) ==
    IF lo > hi THEN << <<>> >>
    ELSE IF lo = hi
    THEN IF t[lo].c \in WS THEN << <<>>, <<>> >> ELSE << <<t[lo]>> >>
    ELSE LET mid   == (lo + hi) \div 2
             left  == WordPieces(t, lo, mid)
             right == WordPieces(t, mid + 1, hi)
         IN  SubSeq(left, 1, Len(left) - 1)
             \o << Cat(left[Len(left)], right[1]) >>
             \o Tail(right)

\* the words of a text
Words(t) == SelectSeq(WordPieces(t, 1, Len(t)), LAMBDA w : w # <<>>)

\* the words of all segments, in order
AllWords(segments) == Flatten([i \in 1..Len(segments) |-> Words(segments[i].str)])

\* the words of the segments separated by single spaces
WordText(segments) == JoinTexts(AllWords(segments), Str(<<" ">>))

\* the sum of the lengths of the segments' texts
InputTextLength(segments) ==
    SumRange([i \in 1..Len(segments) |-> segments[i].length], 1, Len(segments))

Ellipsis == Str(<<" ",".",".",".">>)

\* C3 as stated: the transcript is cut to 12000 characters plus the ellipsis, and
\* flagged truncated, exactly when the texts of the input segments are longer than
\* 12000 characters in total.
C3_CutByInputLength ==
    tPc = "normalized" =>
        IF InputTextLength(tSegments) > MAX_TRANSCRIPT_CHARS
        THEN /\ tOut.truncated
             /\ TextLen(tOut.transcript) = MAX_TRANSCRIPT_CHARS + TextLen(Ellipsis)
        ELSE /\ ~tOut.truncated
             /\ tOut.transcript = WordText(tSegments)

\* C3 amended: the limit is tested on the cleaned transcript (the words of the segments
\* separated by single spaces).  If that text is longer than 12000 characters the
\* transcript is its first 12000 characters followed by " ..." and truncated is true;
\* otherwise the transcript is the cleaned text and truncated is false.
C3_CutByCleanedLength ==
    tPc = "normalized" =>
        LET cleaned == WordText(tSegments)
        IN  /\ tOut.truncated <=> TextLen(cleaned) > MAX_TRANSCRIPT_CHARS
            /\ tOut.truncated =>
                  /\ tOut.transcript = Cat(SliceTo(cleaned, MAX_TRANSCRIPT_CHARS), Ellipsis)
                  /\ TextLen(tOut.transcript) = MAX_TRANSCRIPT_CHARS + TextLen(Ellipsis)
            /\ ~tOut.truncated => tOut.transcript = cleaned

\* segments of 12000 characters in total whose cleaned text, with the space that joins
\* them, is longer, have been cut
C3_Witness ==
    /\ tPc = "normalized"
    /\ Len(tSegments) = 2
    /\ InputTextLength(tSegments) = MAX_TRANSCRIPT_CHARS
    /\ tOut.truncated
    /\ TextLen(tOut.transcript) = MAX_TRANSCRIPT_CHARS + TextLen(Ellipsis)

\* the text t starts with the text p
StartsWith(t, p) ==
    \/ p = <<>>
    \/ /\ Len(t) >= Len(p)
       /\ \A k \in 1..(Len(p) - 1) : t[k] = p[k]
       /\ t[Len(p)].c = p[Len(p)].c
       /\ t[Len(p)].n >= p[Len(p)].n

\* the six section markers, by the line that carries them
IsMarker(k, line) ==
    CASE k = 1 -> StartsWith(line, H_TITLE)
      [] k = 2 -> line = H_OVERVIEW
      [] k = 3 -> StartsWith(line, H_TARGET)
      [] k = 4 -> line = H_POINTS
      [] k = 5 -> line = H_CLOSING
      [] k = 6 -> line = H_SOURCE

\* the lines of ls, other than those of skip, that carry marker k
MarkerLines(ls, k, skip) == {i \in (1..Len(ls)) \ skip : IsMarker(k, ls[i])}

\* the lines ls hold each marker exactly once and in order; with no segments the line
\* under Key Points is empty and the one under Closing is the default sentence
MarkersOnceInOrder(ls, segmentCount) ==
    /\ \A k \in 1..6 : Cardinality(MarkerLines(ls, k, {})) = 1
    /\ \A k \in 1..5 :
          \A i \in MarkerLines(ls, k, {}), j \in MarkerLines(ls, k + 1, {}) : i < j
    /\ segmentCount = 0 =>
          /\ ls[Max(MarkerLines(ls, 4, {})) + 1] = <<>>
          /\ ls[Max(MarkerLines(ls, 5, {})) + 1] = DEFAULT_CLOSING

\* C6 as stated: the article holds each of the six markers exactly once, in the order
\* title, Overview, target length, Key Points, Closing, Source Notes; with no segments
\* the Key Points list is empty and the Closing section is the default sentence.
C6_MarkersOnceInOrder ==
    tPc = "articled" =>
        /\ tOut.kind = "string"
        /\ MarkersOnceInOrder(Lines(tOut.val), Len(tSegments))

\* the lines ls are the frame of an article; text is the line of the closing text
FixedFrame(ls, n, text, segmentCount) ==
    /\ n >= 15 /\ n <= 14 + POINT_COUNT
    /\ MarkerLines(ls, 1, {text}) = {1}
    /\ MarkerLines(ls, 2, {text}) = {3}
    /\ MarkerLines(ls, 3, {text}) = {6}
    /\ MarkerLines(ls, 4, {text}) = {8}
    /\ MarkerLines(ls, 5, {text}) = {n - 4}
    /\ MarkerLines(ls, 6, {text}) = {n - 1}
    /\ \A i \in {2, 5, 7, n - 5, n - 2} : ls[i] = <<>>
    /\ StartsWith(ls[4], Str(<<"S","t","y","l","e"," ","f","o","c","u","s",":"," ">>))
    /\ StartsWith(ls[n], Str(<<"N","o","t","e",":"," ","t","r","a","n","s","c","r","i","p","t"," ">>))
    /\ \/ n = 15 /\ ls[9] = <<>>
       \/ \A i \in 9..(n - 6) : StartsWith(ls[i], Str(<<"-"," ">>))
    /\ ls[text] # <<>>
    /\ segmentCount = 0 => n = 15 /\ ls[9] = <<>> /\ ls[text] = DEFAULT_CLOSING

\* C6 amended: the article is a fixed frame of lines: the title heading first, then
\* Overview, the style line, the target-length statement, Key Points, the points (one
\* "- " line each, at most five, or one empty line), Closing, the closing text, Source
\* Notes and the note, with empty lines between the sections.  Each marker stands
\* exactly once, at its place, among the lines other than the closing text, which
\* repeats the last segments and may itself read like a marker.  With no segments the
\* Key Points list is empty and the closing text is the default sentence.
C6_FixedFrame ==
    tPc = "articled" =>
        /\ tOut.kind = "string"
        /\ FixedFrame(Lines(tOut.val), Len(Lines(tOut.val)), Len(Lines(tOut.val)) - 3,
                      Len(tSegments))

\* an article has been built whose closing text reads like the Closing marker
C6_Witness ==
    /\ tPc = "articled"
    /\ tOut.kind = "string"
    /\ Len(tSegments) > 0
    /\ Lines(tOut.val)[Len(Lines(tOut.val)) - 3] = H_CLOSING

\* the segments at the 0-based indices i, i+1, i+2
Window(segments, i) == SubSeq(segments, i + 1, Min({i + POINT_WINDOW, Len(segments)}))

\* the stride: floor(n / 5), at least 1
Stride(n) == IF n \div POINT_COUNT >= 1 THEN n \div POINT_COUNT ELSE 1

\* the start indices 0, s, 2s, ... whose window has a word
KeptStarts(segments) ==
    {i \in 0..(Len(segments) - 1) :
        i % Stride(Len(segments)) = 0 /\ AllWords(Window(segments, i)) # <<>>}

\* the points samplePoints is to return: the windows of the first five kept starts
ExpectedPoints(segments) ==
    LET kept    == KeptStarts(segments)
        Rank(i) == Cardinality({j \in kept : j <= i})
        chosen  == {i \in kept : Rank(i) <= POINT_COUNT}
    IN  [k \in 1..Cardinality(chosen) |->
            WordText(Window(segments, CHOOSE i \in chosen : Rank(i) = k))]

\* a text with a character that is no whitespace
HasVisible(t) == \E k \in 1..Len(t) : t[k].c \notin WS

\* C7 as stated: samplePoints returns at most 5 points, exactly 5 whenever there are
\* at least 5 segments all with non-empty text, and fewer than 5 when there are fewer
\* than 5 segments.
C7_FiveFromNonEmpty ==
    tPc = "sampled" =>
        /\ Len(tOut) <= POINT_COUNT
        /\ (/\ Len(tSegments) >= POINT_COUNT
            /\ \A i \in 1..Len(tSegments) : tSegments[i].str # <<>>) => Len(tOut) = POINT_COUNT
        /\ Len(tSegments) < POINT_COUNT => Len(tOut) < POINT_COUNT

\* C7 amended: samplePoints visits the start indices 0, s, 2s, ... with
\* s = max(1, floor(n/5)), forms each point from the cleaned 3-segment window there,
\* skips empty windows and stops after 5 points; it returns at most 5 points, exactly
\* 5 whenever there are at least 5 segments whose texts all hold a character that is
\* no whitespace, and fewer than 5 when there are fewer than 5 segments.
C7_FiveFromVisible ==
    tPc = "sampled" =>
        /\ tOut = ExpectedPoints(tSegments)
        /\ Len(tOut) <= POINT_COUNT
        /\ (/\ Len(tSegments) >= POINT_COUNT
            /\ \A i \in 1..Len(tSegments) : HasVisible(tSegments[i].str))
               => Len(tOut) = POINT_COUNT
        /\ Len(tSegments) < POINT_COUNT => Len(tOut) < POINT_COUNT

\* twenty segments "word" have given five points
C7_Witness ==
    /\ tPc = "sampled"
    /\ Len(tSegments) = 20
    /\ \A i \in 1..Len(tSegments) : tSegments[i].str = Str(<<"w","o","r","d">>)
    /\ Len(tOut) = POINT_COUNT

\* C8 as stated: short, medium and long map to their specs and every other choice,
\* or a missing one, to the spec of medium.
C8_OtherChoicesAreMedium ==
    tPc = "lengthed" =>
        LET key == IF Falsy(tChoice) THEN <<>> ELSE ToLowerChars(Expand(tChoice.val))
        IN  tOut = JsString(IF key = <<"s","h","o","r","t">> THEN SHORT_SPEC
                            ELSE IF key = <<"l","o","n","g">> THEN LONG_SPEC
                            ELSE MEDIUM_SPEC)

(***************************************************************************)
(* The server (Spec).                                                      *)
(***************************************************************************)
\* the response request r has received
ResponseOf(r) == responses[r][1]

\* the rule-based article for the body and the transcript of request r
RuleBasedFor(r) ==
    ruleBasedArticle(fetchReply[r].segments,
                     buildStyleDescriptor(body[r].stylePreset, body[r].styleDetail,
                                          body[r].language),
                     lengthSpecFromChoice(body[r].length),
                     TranscriptOf(fetchReply[r].segments).truncated)

\* the external call of request r returned text that is not empty
ExternalTextFor(r) ==
    /\ aiReply[r].kind = "text"
    /\ \E k \in 1..Len(aiReply[r].text) : aiReply[r].text[k].c \notin WS

\* request r has been through generateArticle
Generated(r) == pc[r] = "done" /\ ResponseOf(r).status \in {200, 500}

\* C1: with a credential the external generation is attempted first and the mode is
\* "openai" only when it returned text that is not empty; when it throws or returns
\* empty text the result is the rule-based article with mode "fallback", never that
\* failure; without a credential the external collaborator is never called and the
\* result is the rule-based article with mode "fallback".
C1_ExternalFirstThenFallback ==
    \A r \in Requests :
        Generated(r) =>
            LET result    == ResponseOf(r)
                ruleBased == RuleBasedFor(r)
            IN  /\ aiCalls[r] = (IF apiKey THEN 1 ELSE 0)
                /\ ~apiKey => aiReply[r] = NoAiReply
                /\ result.mode = "openai" <=> (apiKey /\ ExternalTextFor(r))
                /\ result.mode = "openai" =>
                      /\ result.status = 200
                      /\ result.article = Trim(aiReply[r].text)
                /\ result.mode # "openai" =>
                      IF ruleBased.kind = "string"
                      THEN /\ result.status = 200
                           /\ result.mode = "fallback"
                           /\ result.article = ruleBased.val
                      ELSE result.status = 500

\* with a credential, an external call that threw has been answered with the
\* rule-based article
C1_Witness ==
    \E r \in Requests :
        /\ Generated(r)
        /\ apiKey
        /\ aiReply[r].kind = "throw"
        /\ ResponseOf(r).status = 200
        /\ ResponseOf(r).mode = "fallback"
        /\ ResponseOf(r).article = RuleBasedFor(r).val

\* the response the handler owes request r, and the collaborator calls it may have made
OwedResponse(r) ==
    LET b       == body[r]
        videoId == extractVideoId(b.url.val)
        t       == TranscriptOf(fetchReply[r].segments)
        resp    == ResponseOf(r)
    IN  IF b.url.kind # "string" \/ b.url.val = <<>>
        THEN /\ resp = ErrorResponse(400, ERR_NO_URL)
             /\ fetchCalls[r] = 0 /\ aiCalls[r] = 0
        ELSE IF videoId.kind # "string" \/ videoId.val = <<>>
        THEN /\ resp = ErrorResponse(400, ERR_NO_ID)
             /\ fetchCalls[r] = 0 /\ aiCalls[r] = 0
        ELSE IF fetchReply[r].kind = "throw"
        THEN /\ resp = ErrorResponse(502, ERR_FETCH)
             /\ fetchCalls[r] = 1 /\ aiCalls[r] = 0
        ELSE IF fetchReply[r].kind = "null" \/ fetchReply[r].segments = <<>>
        THEN /\ resp = ErrorResponse(404, ERR_NO_CAPTION)
             /\ fetchCalls[r] = 1 /\ aiCalls[r] = 0
        ELSE IF ~(apiKey /\ ExternalTextFor(r)) /\ RuleBasedFor(r).kind = "thrown"
        THEN /\ resp = ErrorResponse(500, ERR_GENERATE)
             /\ fetchCalls[r] = 1
        ELSE /\ resp.status = 200 /\ resp.error = ""
             /\ resp.videoId = videoId.val
             /\ resp.transcript = t.transcript
             /\ resp.truncated = t.truncated
             /\ resp.mode \in {"openai", "fallback"}
             /\ resp.article # <<>>
             /\ fetchCalls[r] = 1

\* C2: every request receives exactly one response, decided by the first step that
\* fails: url missing or no string -> 400; no video id -> 400; the transcript
\* collaborator fails -> 502; it returns no transcript (null or no segments) -> 404;
\* generation throws -> 500; otherwise 200 with videoId, transcript, truncated, article
\* and mode.  No later step runs after an earlier one has failed.
C2_OneResponseByFirstFailure ==
    \A r \in Requests :
        /\ Len(responses[r]) = (IF pc[r] = "done" THEN 1 ELSE 0)
        /\ pc[r] = "idle" => fetchCalls[r] = 0 /\ aiCalls[r] = 0
        /\ pc[r] = "fetching" => fetchCalls[r] = 1 /\ aiCalls[r] = 0
        /\ pc[r] = "generating" => fetchCalls[r] = 1 /\ aiCalls[r] = 1
        /\ pc[r] = "done" => OwedResponse(r)

\* a request whose transcript came back without segments has been answered 404, with
\* one fetch and no generation
C2_Witness ==
    \E r \in Requests :
        /\ pc[r] = "done"
        /\ fetchReply[r].kind = "segments"
        /\ ResponseOf(r) = ErrorResponse(404, ERR_NO_CAPTION)
        /\ fetchCalls[r] = 1
        /\ aiCalls[r] = 0

\* the response to a request served alone, without any other request in flight
ServedAlone(b, reply, text, key) ==
    LET first  == ValidateRequest(b)
        second == AfterFetch(first.frame, reply, key)
        third  == AfterOpenAI(second.frame, text)
    IN  IF first.await = "" THEN first.sent
        ELSE IF second.await = "" THEN second.sent
        ELSE third.sent

\* C9: with the awaits of several requests interleaved in any order, the response of
\* each request depends only on its own body, its own collaborator replies and the
\* process configuration: it is the response the request gets when served alone.
C9_ResponsesAsServedAlone ==
    \A r \in Requests :
        pc[r] = "done" =>
            responses[r] = ServedAlone(body[r], fetchReply[r], aiReply[r], apiKey)

\* a request has been answered with an article while another request, with a
\* different body and received before that answer, is suspended at its external call
C9_Witness ==
    \E r, q \in Requests :
        /\ r # q
        /\ pc[r] = "done" /\ pc[q] = "generating"
        /\ body[r] # body[q]
        /\ ResponseOf(r).status = 200
        /\ frame[q].videoId # ResponseOf(r).videoId

(***************************************************************************)
(* The browser page (SpecClient).                                          *)
(***************************************************************************)
\* the status texts of a generate request that ended in failure
GenerateFailures ==
    {ERR_NO_ID, ERR_FETCH, ERR_NO_CAPTION, ERR_GENERATE, MSG_FAILED, MSG_WRONG}
    \cup (NetworkErrors \ {""}) \cup ParseErrors

\* C10: whenever a generate request has ended in failure and its error status is
\* shown, the page shows no output of an earlier request: the transcript, the
\* article and the mode label are empty and the truncation note is hidden; and the
\* submit button is enabled again whenever no request is in flight.
C10_NoStaleOutputAfterFailure ==
    /\ (statusError /\ statusText \in GenerateFailures) =>
          /\ transcriptEl = ""
          /\ articleEl = ""
          /\ noteHidden
          /\ modeEl = ""
    /\ cpc = "idle" => ~btnDisabled
====
